---- MODULE Spec2Model ----
\* Model of the embedded similarity-search document store of lib/rag.ts
\* (class SimpleVectorStore): an ordered in-memory collection of documents,
\* whole-snapshot persistence to data/vectorstore.json, and cosine-similarity
\* top-k retrieval against an opaque embedding provider; and of the chat route
\* (app/page.tsx) that seeds the store and searches it for each request.
EXTENDS Integers, Sequences, FiniteSets, TLC

VARIABLES
    documents,  \* SimpleVectorStore.documents (rag.ts:14)
    disk,       \* data/vectorstore.json: absent, or the JSON text last written
    op,         \* the call made last: its name and arguments
    outcome,    \* how that call ended: threw / returned, the returned array
    io,         \* what that call did: embedding-provider calls, file writes
    pre,        \* documents and disk when that call started
    app,        \* the chat route module: its flags and the requests in flight
    calls       \* calls on the store that overlap: each one's progress, and
                \* what the writes that returned have made of the collection

vars == <<documents, disk, op, outcome, io, pre, app, calls>>

-----------------------------------------------------------------------------
\* Bounds of the model

\* most documents the store holds in Spec (adds are cut off beyond it)
MaxDocs == 2
\* most documents of a persisted snapshot the store is constructed from in SpecSearch
MaxStored == 4
\* most chat requests one process receives in SpecBoot
MaxRequests == 3
\* most calls made on the store, overlapping or not, in SpecConc
MaxCalls == 3

\* JavaScript's undefined as a document's metadata
Undefined == "undefined"
\* An optional argument: left out of the call, or given with a value
Omitted == << >>

Given(x) == <<x>>

\* Vectors the embedding provider returns. Every vector has an integer Euclidean
\* norm (0, 1, 5), so Math.sqrt is exact on them and the IEEE-754 quotient
\* dot/(|a|*|b|) orders and equates exactly as the rational it rounds.
Embs == {<<0, 0>>, <<1, 0>>, <<3, 4>>}
\* Values of the optional argument k of similaritySearch
Ks == {Omitted} \cup {Given(k) : k \in {-1, 0, 1, 2, 5}}
\* (text, metadata) pairs a caller passes to addDocument
Requests == {<<"a", Undefined>>, <<"a", "m">>, <<"", Undefined>>}
\* (texts, metadatas) pairs a caller passes to addDocuments
Batches ==
    { <<<< >>, Omitted>>,
      <<<<"a">>, Omitted>>,
      <<<<"a", "a">>, Omitted>>,
      <<<<"", "a">>, Omitted>>,
      <<<<"a", "a">>, Given(<<"m", "m">>)>>,
      <<<<"a", "a">>, Given(<<"m">>)>>,
      <<<<"a">>, Given(<<"m", "m">>)>> }
\* What fs.writeFileSync can do: "ok" replaces the file; "refused" throws
\* before the file is touched (EACCES, a failing mkdir); "partial" throws after
\* the file was truncated and part of the text written (ENOSPC, EIO)
WriteResults == {"ok", "refused", "partial"}
\* Outcomes of fs.writeFileSync the environment produces in Spec
WriteOutcomes == {"ok"}

-----------------------------------------------------------------------------
\* Helpers

Range(s) == {s[i] : i \in 1..Len(s)}

Min(a, b) == IF a < b THEN a ELSE b

Max(a, b) == IF a > b THEN a ELSE b

\* Math.sqrt on the squared norms of Embs (perfect squares: exact in IEEE-754)
Sqrt(n) == CHOOSE r \in 0..n : r * r = n

RECURSIVE SumTo(_, _)
\* Array.prototype.reduce((sum, x) => sum + f(x), 0) over indices 1..n
SumTo(f, n) == IF n = 0 THEN 0 ELSE SumTo(f, n - 1) + f[n]

\* A Document (rag.ts:6-11)
Doc(id, text, embedding, metadata) ==
    [id |-> id, text |-> text, embedding |-> embedding, metadata |-> metadata]

\* The id of a new document: Date.now().toString() + Math.random()... is an
\* opaque string the code never inspects; it is represented by the least
\* identifier no stored document carries.
NewId(docs) ==
    CHOOSE n \in 1..(Len(docs) + 1) :
        /\ \A i \in 1..Len(docs) : docs[i].id # n
        /\ \A m \in 1..(n - 1) : \E i \in 1..Len(docs) : docs[i].id = m

-----------------------------------------------------------------------------
\* Persistence

\* JSON.stringify(this.documents): an array of objects; a property whose value
\* is undefined is left out of the object.
Stringify(docs) ==
    [i \in 1..Len(docs) |->
        IF docs[i].metadata = Undefined
        THEN [id |-> docs[i].id, text |-> docs[i].text,
              embedding |-> docs[i].embedding]
        ELSE [id |-> docs[i].id, text |-> docs[i].text,
              embedding |-> docs[i].embedding, metadata |-> docs[i].metadata]]

\* JSON.parse(data): reading a property the object lacks gives undefined
Parse(data) ==
    [i \in 1..Len(data) |->
        Doc(data[i].id, data[i].text, data[i].embedding,
            IF "metadata" \in DOMAIN data[i] THEN data[i].metadata ELSE Undefined)]

\* The file data/vectorstore.json: whether it exists, whether its text is
\* JSON that JSON.parse accepts, and then the array it holds
NoFile == [exists |-> FALSE, readable |-> FALSE, data |-> << >>]

\* A file whose text JSON.parse rejects (cut short, or overwritten by hand)
MalformedFile == [exists |-> TRUE, readable |-> FALSE, data |-> << >>]

\* saveToDisk (rag.ts:80-91): writeFileSync replaces the file; an exception is
\* caught and logged, and saveToDisk returns normally either way
saveToDisk(docs, old, write) ==
    CASE write = "ok" -> [exists |-> TRUE, readable |-> TRUE, data |-> Stringify(docs)]
      [] write = "refused" -> old
      [] write = "partial" -> MalformedFile

\* loadFromDisk (rag.ts:93-103): the parsed file if it exists; when there is
\* no file, or JSON.parse throws (caught and logged), this.documents keeps its
\* initial value []
loadFromDisk(file) ==
    IF file.exists /\ file.readable THEN Parse(file.data) ELSE << >>

-----------------------------------------------------------------------------
\* Similarity (numbers a score can be: NaN, or the exact quotient num/den, den > 0)

NaNScore == [nan |-> TRUE, num |-> 0, den |-> 0]

\* dotProduct / (magnitudeA * magnitudeB). A zero denominator means one vector
\* is all zeros, so the dot product is 0 too and 0/0 is NaN (Infinity needs a
\* non-zero dot product over a zero norm, which no real vectors give).
Divide(n, d) ==
    IF n.nan \/ d = 0 THEN NaNScore ELSE [nan |-> FALSE, num |-> n.val, den |-> d]

\* cosineSimilarity (rag.ts:23-28). The reductions run over vecA's indices;
\* vecB[i] past the end of vecB is undefined and a * undefined is NaN.
cosineSimilarity(vecA, vecB) ==
    LET dotProduct ==
            IF Len(vecA) > Len(vecB) THEN [nan |-> TRUE, val |-> 0]
            ELSE [nan |-> FALSE,
                  val |-> SumTo([i \in 1..Len(vecA) |-> vecA[i] * vecB[i]], Len(vecA))]
        magnitudeA == Sqrt(SumTo([i \in 1..Len(vecA) |-> vecA[i] * vecA[i]], Len(vecA)))
        magnitudeB == Sqrt(SumTo([i \in 1..Len(vecB) |-> vecB[i] * vecB[i]], Len(vecB)))
    IN  Divide(dotProduct, magnitudeA * magnitudeB)

\* The comparator (a, b) => b.similarity - a.similarity of rag.ts:70, as the
\* sign of the difference, or NaN when either operand is NaN.
comparefn(a, b) ==
    IF a.similarity.nan \/ b.similarity.nan THEN [nan |-> TRUE, sign |-> 0]
    ELSE LET diff == b.similarity.num * a.similarity.den
                     - a.similarity.num * b.similarity.den
         IN  [nan |-> FALSE, sign |-> IF diff < 0 THEN -1 ELSE IF diff > 0 THEN 1 ELSE 0]

\* Array.prototype.sort's SortCompare: a comparator result of NaN counts as +0
SortCompare(a, b) ==
    LET v == comparefn(a, b) IN IF v.nan THEN 0 ELSE v.sign

\* ECMAScript's "consistent comparator" over the values being sorted (the
\* comparator reads nothing but their similarity)
ConsistentComparator(items) ==
    LET S == {[similarity |-> items[i].similarity] : i \in DOMAIN items} IN
    \A a \in S, b \in S, c \in S :
        /\ SortCompare(a, a) = 0
        /\ (SortCompare(a, b) = 0 /\ SortCompare(b, c) = 0) => SortCompare(a, c) = 0
        /\ (SortCompare(a, b) < 0 /\ SortCompare(b, c) < 0) => SortCompare(a, c) < 0
        /\ (SortCompare(a, b) > 0 /\ SortCompare(b, c) > 0) => SortCompare(a, c) > 0
        /\ (SortCompare(a, b) < 0) <=> (SortCompare(b, a) > 0)

\* x placed after every element that does not sort after it (stable insertion)
InsertInOrder(sorted, x) ==
    LET p == Cardinality({i \in 1..Len(sorted) : SortCompare(sorted[i], x) <= 0})
    IN  SubSeq(sorted, 1, p) \o <<x>> \o SubSeq(sorted, p + 1, Len(sorted))

RECURSIVE StableSort(_)
\* The stable sort by the comparator (Array.prototype.sort is stable)
StableSort(items) ==
    IF Len(items) <= 1 THEN items
    ELSE InsertInOrder(StableSort(SubSeq(items, 1, Len(items) - 1)), items[Len(items)])

\* Every reordering of a sequence
Reorderings(items) ==
    LET n == Len(items) IN
    {[i \in 1..n |-> items[f[i]]] :
        f \in {g \in [1..n -> 1..n] : \A i \in 1..n, j \in 1..n : g[i] = g[j] => i = j}}

\* The orders .sort(comparefn) can leave the array in: the stable sorted order
\* when the comparator is consistent on the array's values; otherwise the
\* order is implementation-defined (ECMAScript, Array.prototype.sort), so any
\* reordering.
SortOutcomes(items) ==
    IF ConsistentComparator(items) THEN {StableSort(items)} ELSE Reorderings(items)

\* Array.prototype.slice(0, end): a negative end counts from the array's end
Slice(items, end) ==
    LET final == IF end < 0 THEN Max(Len(items) + end, 0) ELSE Min(end, Len(items))
    IN  SubSeq(items, 1, final)

\* The default parameter k = 4 of similaritySearch (rag.ts:56)
DefaultK(k) == IF k = Omitted THEN 4 ELSE k[1]

\* documents.map(doc => ({doc, similarity})) of rag.ts:64-67
Similarities(docs, queryEmbedding) ==
    [i \in 1..Len(docs) |->
        [doc |-> docs[i],
         similarity |-> cosineSimilarity(queryEmbedding, docs[i].embedding)]]

-----------------------------------------------------------------------------
\* The embedding provider (embedQuery, embedDocuments): an opaque capability
\* that rejects, or resolves to a value

Rejected == << >>

Resolved(v) == <<v>>

\* What embedQuery can do
QueryEmbeddings == {Rejected} \cup {Resolved(e) : e \in Embs}

\* What embedDocuments can do for n texts: one vector per text
BatchEmbeddings(n) == {Rejected} \cup {Resolved(es) : es \in [1..n -> Embs]}

-----------------------------------------------------------------------------
\* Records of the last call

Call(name, text, metadata, texts, metadatas, k) ==
    [name |-> name, text |-> text, metadata |-> metadata,
     texts |-> texts, metadatas |-> metadatas, k |-> k]

\* embed: "none" (provider not called), "ok" or "failed"; qvec: the query
\* embedding the provider returned, when it returned one
Outcome(threw, ret, embed, qvec) ==
    [threw |-> threw, ret |-> ret, embed |-> embed, qvec |-> qvec]

\* writeFailures: the calls of writeFileSync that threw
Io(embedCalls, writes, writeFailures) ==
    [embedCalls |-> embedCalls, writes |-> writes, writeFailures |-> writeFailures]

WriteFailures(write) == IF write = "ok" THEN 0 ELSE 1

Before == [documents |-> documents, disk |-> disk]

\* No call is in progress or awaiting its caller
Idle == op.name = "idle"

\* The chat route module as loaded (page.tsx:372-373): ragInitialized = false,
\* ragEnabled = true, no request received. key is whether OPENAI_API_KEY is
\* set; decided is the first outcome ensureRAGInitialized recorded; the other
\* fields record what the requests did.
Boot(key) ==
    [key |-> key, ragInitialized |-> FALSE, ragEnabled |-> TRUE,
     pc |-> [r \in 1..MaxRequests |-> "new"],
     decided |-> "uninitialized", initCalls |-> 0, seedCalls |-> 0,
     seedOnNonEmpty |-> FALSE, lateInit |-> FALSE, lateSearch |-> FALSE]

\* A call not made yet. seen is the collection when the call was made, ranked
\* the collection a search mapped over (rag.ts:64) if it got that far.
FreeCall ==
    [name |-> "none", state |-> "free", texts |-> << >>, k |-> Omitted,
     seen |-> << >>, ranked |-> Omitted]

\* No call made on the empty store: complete holds the collections as the
\* writes that returned left them, sinceClear the texts the adds that returned
\* after the last clear appended
NoCalls ==
    [inflight |-> [c \in 1..MaxCalls |-> FreeCall],
     complete |-> {<< >>}, sinceClear |-> << >>]

-----------------------------------------------------------------------------
\* Operations of SimpleVectorStore

\* constructor (rag.ts:17-20) in a process started with no persisted file
Init ==
    /\ disk = NoFile
    /\ documents = loadFromDisk(disk)
    /\ op = Call("construct", "", Undefined, << >>, Omitted, Omitted)
    /\ outcome = Outcome(FALSE, << >>, "none", << >>)
    /\ io = Io(0, 0, 0)
    /\ pre = [documents |-> << >>, disk |-> NoFile]
    /\ app = Boot(TRUE)
    /\ calls = NoCalls

\* The caller takes the result of the call it made and goes on
Return ==
    /\ ~Idle
    /\ op' = Call("idle", "", Undefined, << >>, Omitted, Omitted)
    /\ outcome' = Outcome(FALSE, << >>, "none", << >>)
    /\ io' = Io(0, 0, 0)
    /\ pre' = Before
    /\ UNCHANGED <<documents, disk>>

\* A process restart: the module-level store is constructed again and loads
\* the persisted file (rag.ts:17-20, 93-103).
Restart ==
    /\ Idle
    /\ documents' = loadFromDisk(disk)
    /\ disk' = disk
    /\ op' = Call("construct", "", Undefined, << >>, Omitted, Omitted)
    /\ outcome' = Outcome(FALSE, << >>, "none", << >>)
    /\ io' = Io(0, 0, 0)
    /\ pre' = Before

\* A variant that stores a zero vector when the provider rejects
AddDocument_ZeroVectorFallback(text, metadata, embedding, write) ==
    /\ Idle
    /\ op' = Call("addDocument", text, metadata, << >>, Omitted, Omitted)
    /\ pre' = Before
    /\ Len(documents) < MaxDocs
    /\ documents' = Append(documents,
            Doc(NewId(documents), text,
                IF embedding = Rejected THEN <<0, 0>> ELSE embedding[1], metadata))
    /\ disk' = saveToDisk(documents', disk, write)
    /\ outcome' = Outcome(FALSE, << >>,
                          IF embedding = Rejected THEN "failed" ELSE "ok", << >>)
    /\ io' = Io(1, 1, WriteFailures(write))

\* addDocument (rag.ts:30-40); embedding is what embedQuery(text) does. A
\* rejection leaves the await before anything is pushed or saved.
AddDocument(text, metadata, embedding, write) ==
    /\ Idle
    /\ op' = Call("addDocument", text, metadata, << >>, Omitted, Omitted)
    /\ pre' = Before
    /\ IF embedding = Rejected
       THEN /\ outcome' = Outcome(TRUE, << >>, "failed", << >>)
            /\ io' = Io(1, 0, 0)
            /\ UNCHANGED <<documents, disk>>
       ELSE /\ Len(documents) < MaxDocs
            /\ documents' = Append(documents,
                    Doc(NewId(documents), text, embedding[1], metadata))
            /\ disk' = saveToDisk(documents', disk, write)
            /\ outcome' = Outcome(FALSE, << >>, "ok", << >>)
            /\ io' = Io(1, 1, WriteFailures(write))

\* metadatas?.[i] (rag.ts:49)
MetadataAt(metadatas, i) ==
    IF metadatas = Omitted THEN Undefined
    ELSE IF i <= Len(metadatas[1]) THEN metadatas[1][i] ELSE Undefined

RECURSIVE PushAll(_, _, _, _, _)
\* texts.forEach((text, i) => this.documents.push(doc)) (rag.ts:44-52),
\* from index i on
PushAll(docs, texts, embeddings, metadatas, i) ==
    IF i > Len(texts) THEN docs
    ELSE PushAll(Append(docs, Doc(NewId(docs), texts[i], embeddings[i],
                                  MetadataAt(metadatas, i))),
                 texts, embeddings, metadatas, i + 1)

\* A variant that puts the new documents in front of the stored ones
AddDocuments_Unshift(texts, metadatas, embeddings, write) ==
    /\ Idle
    /\ op' = Call("addDocuments", "", Undefined, texts, metadatas, Omitted)
    /\ pre' = Before
    /\ IF embeddings = Rejected
       THEN /\ outcome' = Outcome(TRUE, << >>, "failed", << >>)
            /\ io' = Io(1, 0, 0)
            /\ UNCHANGED <<documents, disk>>
       ELSE /\ Len(documents) + Len(texts) <= MaxDocs
            /\ LET all == PushAll(documents, texts, embeddings[1], metadatas, 1)
               IN  documents' = SubSeq(all, Len(documents) + 1, Len(all)) \o documents
            /\ disk' = saveToDisk(documents', disk, write)
            /\ outcome' = Outcome(FALSE, << >>, "ok", << >>)
            /\ io' = Io(1, 1, WriteFailures(write))

\* addDocuments (rag.ts:42-54); embeddings is what embedDocuments(texts) does
AddDocuments(texts, metadatas, embeddings, write) ==
    /\ Idle
    /\ op' = Call("addDocuments", "", Undefined, texts, metadatas, Omitted)
    /\ pre' = Before
    /\ IF embeddings = Rejected
       THEN /\ outcome' = Outcome(TRUE, << >>, "failed", << >>)
            /\ io' = Io(1, 0, 0)
            /\ UNCHANGED <<documents, disk>>
       ELSE /\ Len(documents) + Len(texts) <= MaxDocs
            /\ documents' = PushAll(documents, texts, embeddings[1], metadatas, 1)
            /\ disk' = saveToDisk(documents', disk, write)
            /\ outcome' = Outcome(FALSE, << >>, "ok", << >>)
            /\ io' = Io(1, 1, WriteFailures(write))

\* similaritySearch on an empty store (rag.ts:57-59)
SearchEmptyStore ==
    /\ outcome' = Outcome(FALSE, << >>, "none", << >>)
    /\ io' = Io(0, 0, 0)

\* A variant that lets the provider's rejection reach the caller
SearchEmbedFailed_Propagates ==
    /\ outcome' = Outcome(TRUE, << >>, "failed", << >>)
    /\ io' = Io(1, 0, 0)

\* similaritySearch with embedQuery rejecting: caught, logged, [] returned
\* (rag.ts:73-77)
SearchEmbedFailed ==
    /\ outcome' = Outcome(FALSE, << >>, "failed", << >>)
    /\ io' = Io(1, 0, 0)

\* similaritySearch with embedQuery resolving to queryEmbedding (rag.ts:62-72)
SearchRanked(k, queryEmbedding) ==
    \E sorted \in SortOutcomes(Similarities(documents, queryEmbedding)) :
        LET top == Slice(sorted, DefaultK(k))
        IN  /\ outcome' = Outcome(FALSE, [i \in 1..Len(top) |-> top[i].doc],
                                  "ok", queryEmbedding)
            /\ io' = Io(1, 0, 0)

\* A variant without the empty-store check of rag.ts:57-59
SimilaritySearch_NoEmptyGuard(k, queryEmbedding) ==
    /\ Idle
    /\ op' = Call("similaritySearch", "", Undefined, << >>, Omitted, k)
    /\ pre' = Before
    /\ UNCHANGED <<documents, disk>>
    /\ IF queryEmbedding = Rejected THEN SearchEmbedFailed
       ELSE SearchRanked(k, queryEmbedding[1])

\* similaritySearch (rag.ts:56-78); queryEmbedding is what embedQuery(query)
\* does if it is called
SimilaritySearch(k, queryEmbedding) ==
    /\ Idle
    /\ op' = Call("similaritySearch", "", Undefined, << >>, Omitted, k)
    /\ pre' = Before
    /\ UNCHANGED <<documents, disk>>
    /\ IF Len(documents) = 0 THEN SearchEmptyStore
       ELSE IF queryEmbedding = Rejected THEN SearchEmbedFailed
       ELSE SearchRanked(k, queryEmbedding[1])

\* clear (rag.ts:105-108)
Clear(write) ==
    /\ Idle
    /\ documents' = << >>
    /\ disk' = saveToDisk(documents', disk, write)
    /\ op' = Call("clear", "", Undefined, << >>, Omitted, Omitted)
    /\ outcome' = Outcome(FALSE, << >>, "none", << >>)
    /\ io' = Io(0, 1, WriteFailures(write))
    /\ pre' = Before

Next ==
    \/ \E r \in Requests, e \in QueryEmbeddings, w \in WriteOutcomes :
          AddDocument(r[1], r[2], e, w) /\ UNCHANGED <<app, calls>>
    \/ \E b \in Batches, w \in WriteOutcomes :
          \E es \in BatchEmbeddings(Len(b[1])) :
              AddDocuments(b[1], b[2], es, w) /\ UNCHANGED <<app, calls>>
    \/ \E k \in Ks, q \in QueryEmbeddings : SimilaritySearch(k, q) /\ UNCHANGED <<app, calls>>
    \/ \E w \in WriteOutcomes : Clear(w) /\ UNCHANGED <<app, calls>>
    \/ Restart /\ app' = Boot(app.key) /\ calls' = NoCalls
    \/ Return /\ UNCHANGED <<app, calls>>

Spec == Init /\ [][Next]_vars

-----------------------------------------------------------------------------
\* The store constructed from a snapshot an earlier process persisted, then queried

\* Collections earlier adds left persisted: n documents with the ids 1..n
StoredContents ==
    UNION {{[i \in 1..n |-> Doc(i, "a", f[i], Undefined)] : f \in [1..n -> Embs]} :
           n \in 0..MaxStored}

InitSearch ==
    /\ \E docs \in StoredContents : disk = saveToDisk(docs, NoFile, "ok")
    /\ documents = loadFromDisk(disk)
    /\ op = Call("construct", "", Undefined, << >>, Omitted, Omitted)
    /\ outcome = Outcome(FALSE, << >>, "none", << >>)
    /\ io = Io(0, 0, 0)
    /\ pre = [documents |-> << >>, disk |-> disk]
    /\ app = Boot(TRUE)
    /\ calls = NoCalls

NextSearch ==
    \/ \E k \in Ks, q \in QueryEmbeddings : SimilaritySearch(k, q) /\ UNCHANGED <<app, calls>>
    \/ Return /\ UNCHANGED <<app, calls>>

SpecSearch == InitSearch /\ [][NextSearch]_vars

-----------------------------------------------------------------------------
\* The store over a file system whose writes can fail, started from whatever an
\* earlier process left in data/vectorstore.json

\* The one vector the provider returns here (scores play no part)
PersistEmbedding == <<1, 0>>

\* Collections an earlier process left persisted
PersistedCollections ==
    UNION {{[i \in 1..n |-> Doc(i, "a", PersistEmbedding, f[i])] :
                f \in [1..n -> {Undefined, "m"}]} :
           n \in 0..MaxDocs}

\* Files the constructor can find
FoundFiles ==
    {NoFile, MalformedFile}
        \cup {saveToDisk(docs, NoFile, "ok") : docs \in PersistedCollections}

\* constructor (rag.ts:17-20) over any file an earlier process left; pre holds
\* the state construction produced, no call having been made yet
InitPersist ==
    /\ disk \in FoundFiles
    /\ documents = loadFromDisk(disk)
    /\ op = Call("construct", "", Undefined, << >>, Omitted, Omitted)
    /\ outcome = Outcome(FALSE, << >>, "none", << >>)
    /\ io = Io(0, 0, 0)
    /\ pre = [documents |-> documents, disk |-> disk]
    /\ app = Boot(TRUE)
    /\ calls = NoCalls

NextPersist ==
    \/ \E m \in {Undefined, "m"}, w \in WriteResults :
          \E e \in {Rejected, Resolved(PersistEmbedding)} :
              AddDocument("a", m, e, w) /\ UNCHANGED <<app, calls>>
    \/ \E b \in {<<<<"a", "a">>, Omitted>>, <<<<"a", "a">>, Given(<<"m", "m">>)>>,
                 <<<<"a">>, Given(<<"m">>)>>},
          w \in WriteResults :
          \E es \in {Rejected, Resolved([i \in 1..Len(b[1]) |-> PersistEmbedding])} :
              AddDocuments(b[1], b[2], es, w) /\ UNCHANGED <<app, calls>>
    \/ \E q \in {Rejected, Resolved(PersistEmbedding)} :
          SimilaritySearch(Given(2), q) /\ UNCHANGED <<app, calls>>
    \/ \E w \in WriteResults : Clear(w) /\ UNCHANGED <<app, calls>>
    \/ Restart /\ app' = Boot(app.key) /\ calls' = NoCalls
    \/ Return /\ UNCHANGED <<app, calls>>

SpecPersist == InitPersist /\ [][NextPersist]_vars

\* The operations of Spec (every write succeeding) on a store constructed over
\* any file an earlier process left, a malformed one included
SpecLoad == InitPersist /\ [][Next]_vars

-----------------------------------------------------------------------------
\* The chat route (page.tsx:368-498) over the module-level store: requests
\* interleave at their awaits

\* sampleDocs (rag.ts:133-140), one name per text
sampleDocs == <<"s1", "s2", "s3", "s4", "s5", "s6">>

\* What embedDocuments(sampleDocs) resolves to
SeedEmbeddings == [i \in 1..Len(sampleDocs) |-> PersistEmbedding]

\* A process started with no persisted file or with one a user's document was
\* saved to; OPENAI_API_KEY set or not
InitBoot ==
    /\ disk \in {NoFile,
                 saveToDisk(<<Doc(1, "a", PersistEmbedding, Undefined)>>, NoFile, "ok")}
    /\ documents = loadFromDisk(disk)
    /\ op = Call("construct", "", Undefined, << >>, Omitted, Omitted)
    /\ outcome = Outcome(FALSE, << >>, "none", << >>)
    /\ io = Io(0, 0, 0)
    /\ pre = [documents |-> documents, disk |-> disk]
    /\ \E key \in BOOLEAN : app = Boot(key)
    /\ calls = NoCalls

\* ensureRAGInitialized records its outcome (page.tsx:379-380, 383-384)
Record(a, enabled) ==
    [a EXCEPT !.ragEnabled = enabled, !.ragInitialized = TRUE,
              !.decided = IF a.decided = "uninitialized"
                          THEN IF enabled THEN "available" ELSE "unavailable"
                          ELSE a.decided]

\* POST of request r up to its first await that leaves the process: the call of
\* ensureRAGInitialized (page.tsx:391, 375-387) and, if the flag is not set,
\* of initializeRAG (rag.ts:124-151) up to embedDocuments inside addDocuments
EnsureRAGInitialized(r) ==
    /\ app.pc[r] = "new"
    /\ UNCHANGED <<documents, disk, op, outcome, io, pre>>
    /\ IF app.ragInitialized
       THEN app' = [app EXCEPT !.pc[r] = "late"]
       ELSE LET called == [app EXCEPT !.initCalls = @ + 1,
                                      !.lateInit = @ \/ app.decided # "uninitialized"]
            IN  IF ~app.key
                THEN app' = [Record(called, FALSE) EXCEPT !.pc[r] = "ready"]
                ELSE IF Len(documents) # 0
                THEN app' = [Record(called, TRUE) EXCEPT !.pc[r] = "ready"]
                ELSE app' = [called EXCEPT !.pc[r] = "seeding", !.seedCalls = @ + 1,
                                           !.seedOnNonEmpty = @ \/ Len(documents) # 0]

\* embedDocuments(sampleDocs) settles for request r: addDocuments goes on from
\* its await (rag.ts:43-53), initializeRAG returns or throws (rag.ts:144-149)
\* and ensureRAGInitialized records the outcome (page.tsx:378-385)
SeedSettled(r, embeddings, write) ==
    /\ app.pc[r] = "seeding"
    /\ Idle
    /\ op' = Call("addDocuments", "", Undefined, sampleDocs, Omitted, Omitted)
    /\ pre' = Before
    /\ IF embeddings = Rejected
       THEN /\ outcome' = Outcome(TRUE, << >>, "failed", << >>)
            /\ io' = Io(1, 0, 0)
            /\ UNCHANGED <<documents, disk>>
            /\ app' = [Record(app, FALSE) EXCEPT !.pc[r] = "ready"]
       ELSE /\ documents' = PushAll(documents, sampleDocs, embeddings[1], Omitted, 1)
            /\ disk' = saveToDisk(documents', disk, write)
            /\ outcome' = Outcome(FALSE, << >>, "ok", << >>)
            /\ io' = Io(1, 1, WriteFailures(write))
            /\ app' = [Record(app, TRUE) EXCEPT !.pc[r] = "ready"]

\* The rest of POST for request r (page.tsx:393-421): the body is read, the
\* GROQ key checked, and the store searched if there is a query and ragEnabled
POST(r, groqKey, userQuery, queryEmbedding) ==
    /\ app.pc[r] \in {"ready", "late"}
    /\ IF groqKey /\ userQuery # "" /\ app.ragEnabled
       THEN /\ SimilaritySearch(Given(3), queryEmbedding)
            /\ app' = [app EXCEPT !.pc[r] = "done",
                          !.lateSearch = @ \/ (app.pc[r] = "late"
                                               /\ app.decided = "unavailable")]
       ELSE /\ app' = [app EXCEPT !.pc[r] = "done"]
            /\ UNCHANGED <<documents, disk, op, outcome, io, pre>>

NextBoot ==
    \/ \E r \in 1..MaxRequests : EnsureRAGInitialized(r) /\ UNCHANGED calls
    \/ \E r \in 1..MaxRequests, es \in {Rejected, Resolved(SeedEmbeddings)},
          w \in WriteOutcomes : SeedSettled(r, es, w) /\ UNCHANGED calls
    \/ \E r \in 1..MaxRequests, groqKey \in BOOLEAN, userQuery \in {"", "q"},
          q \in {Rejected, Resolved(PersistEmbedding)} :
          POST(r, groqKey, userQuery, q) /\ UNCHANGED calls
    \/ Restart /\ app' = Boot(app.key) /\ calls' = NoCalls
    \/ Return /\ UNCHANGED <<app, calls>>

SpecBoot == InitBoot /\ [][NextBoot]_vars

-----------------------------------------------------------------------------
\* The store with the ids the code generates. NewId above stands for the
\* outcomes of the clock and of Math.random in which every id comes out new;
\* here they are drawn freely. A string is the sequence of its characters.

\* Date.now().toString(): two readings of the wall clock
Clock == {<<"1">>, <<"2">>}
\* Math.random().toString(36).substr(2, 9): characters of 0-9a-z
RandomStrings == {<<"a">>, <<"0", "a">>}

Digits == <<"0", "1", "2", "3", "4", "5", "6", "7", "8", "9">>

RECURSIVE NumberToString(_)
\* Number-to-string conversion of the index i in the string concatenation of
\* rag.ts:46
NumberToString(n) ==
    IF n < 10 THEN <<Digits[n + 1]>>
    ELSE NumberToString(n \div 10) \o <<Digits[(n % 10) + 1]>>

\* Date.now().toString() + Math.random().toString(36).substr(2, 9) (rag.ts:33)
DocumentId(now, random) == now \o random
\* Date.now().toString() + i + Math.random().toString(36).substr(2, 9)
\* (rag.ts:46), i counting from 0
BatchDocumentId(now, i, random) == now \o NumberToString(i) \o random

\* addDocument (rag.ts:30-40) at clock reading now, Math.random giving random
AddDocumentAt(now, random, text, metadata, embedding, write) ==
    /\ Idle
    /\ op' = Call("addDocument", text, metadata, << >>, Omitted, Omitted)
    /\ pre' = Before
    /\ IF embedding = Rejected
       THEN /\ outcome' = Outcome(TRUE, << >>, "failed", << >>)
            /\ io' = Io(1, 0, 0)
            /\ UNCHANGED <<documents, disk>>
       ELSE /\ Len(documents) < MaxDocs
            /\ documents' = Append(documents,
                    Doc(DocumentId(now, random), text, embedding[1], metadata))
            /\ disk' = saveToDisk(documents', disk, write)
            /\ outcome' = Outcome(FALSE, << >>, "ok", << >>)
            /\ io' = Io(1, 1, WriteFailures(write))

\* addDocuments (rag.ts:42-54), the i-th document made at clock reading
\* nows[i] with Math.random giving randoms[i]
AddDocumentsAt(nows, randoms, texts, metadatas, embeddings, write) ==
    /\ Idle
    /\ op' = Call("addDocuments", "", Undefined, texts, metadatas, Omitted)
    /\ pre' = Before
    /\ IF embeddings = Rejected
       THEN /\ outcome' = Outcome(TRUE, << >>, "failed", << >>)
            /\ io' = Io(1, 0, 0)
            /\ UNCHANGED <<documents, disk>>
       ELSE /\ Len(documents) + Len(texts) <= MaxDocs
            /\ documents' = documents \o
                    [i \in 1..Len(texts) |->
                        Doc(BatchDocumentId(nows[i], i - 1, randoms[i]), texts[i],
                            embeddings[1][i], MetadataAt(metadatas, i))]
            /\ disk' = saveToDisk(documents', disk, write)
            /\ outcome' = Outcome(FALSE, << >>, "ok", << >>)
            /\ io' = Io(1, 1, WriteFailures(write))

NextIds ==
    \/ \E now \in Clock, random \in RandomStrings,
          e \in {Rejected, Resolved(PersistEmbedding)} :
          AddDocumentAt(now, random, "a", Undefined, e, "ok") /\ UNCHANGED <<app, calls>>
    \/ \E n \in 1..MaxDocs :
          \E nows \in [1..n -> Clock], randoms \in [1..n -> RandomStrings],
             es \in {Rejected, Resolved([i \in 1..n |-> PersistEmbedding])} :
              AddDocumentsAt(nows, randoms, [i \in 1..n |-> "a"], Omitted, es, "ok")
                  /\ UNCHANGED <<app, calls>>
    \/ \E q \in {Rejected, Resolved(PersistEmbedding)} :
          SimilaritySearch(Given(2), q) /\ UNCHANGED <<app, calls>>
    \/ Clear("ok") /\ UNCHANGED <<app, calls>>
    \/ Restart /\ app' = Boot(app.key) /\ calls' = NoCalls
    \/ Return /\ UNCHANGED <<app, calls>>

SpecIds == Init /\ [][NextIds]_vars

-----------------------------------------------------------------------------
\* The store over a provider whose vectors are not all of one length (the
\* length is the provider's: the store is handed number arrays, rag.ts:31, 43)

MixedEmbs == {<<1>>, <<1, 0>>}

NextDims ==
    \/ \E m \in {Undefined, "m"}, e \in {Rejected} \cup {Resolved(v) : v \in MixedEmbs} :
          AddDocument("a", m, e, "ok") /\ UNCHANGED <<app, calls>>
    \/ \E n \in 1..MaxDocs :
          \E es \in {Rejected} \cup {Resolved(vs) : vs \in [1..n -> MixedEmbs]} :
              AddDocuments([i \in 1..n |-> "a"], Omitted, es, "ok") /\ UNCHANGED <<app, calls>>
    \/ \E k \in {Omitted, Given(1)},
          q \in {Rejected} \cup {Resolved(v) : v \in MixedEmbs} :
          SimilaritySearch(k, q) /\ UNCHANGED <<app, calls>>
    \/ Clear("ok") /\ UNCHANGED <<app, calls>>
    \/ Restart /\ app' = Boot(app.key) /\ calls' = NoCalls
    \/ Return /\ UNCHANGED <<app, calls>>

SpecDims == Init /\ [][NextDims]_vars

-----------------------------------------------------------------------------
\* Calls on the module-level store (rag.ts:111-121) that overlap. A call runs
\* without interruption from one await to the next (JavaScript runs a job to
\* completion); other calls run while it awaits the embedding provider.

\* Call c is the next one to be made
NextCall(c) ==
    /\ calls.inflight[c].state = "free"
    /\ \A d \in 1..(c - 1) : calls.inflight[d].state # "free"

Awaiting(c, name) ==
    /\ calls.inflight[c].state = "awaiting"
    /\ calls.inflight[c].name = name

\* Call c is made: what a call does up to its await
Called(c, name, texts, k) ==
    [calls EXCEPT !.inflight[c] =
        [name |-> name, state |-> "awaiting", texts |-> texts, k |-> k,
         seen |-> documents, ranked |-> Omitted]]

\* Call c returns or throws; ranked is what it mapped over, if it is a search
\* that did
Returned(cs, c, ranked) ==
    [cs EXCEPT !.inflight[c].state = "returned", !.inflight[c].ranked = ranked]

\* A write left the collection as docs
Written(cs, docs) == [cs EXCEPT !.complete = @ \cup {docs}]

\* similaritySearch up to its await (rag.ts:56-62): [] at once on an empty
\* store, else embedQuery is called
SearchCalled(c, k) ==
    /\ NextCall(c)
    /\ UNCHANGED <<documents, disk>>
    /\ IF Len(documents) = 0
       THEN /\ op' = Call("similaritySearch", "", Undefined, << >>, Omitted, k)
            /\ pre' = Before
            /\ SearchEmptyStore
            /\ calls' = Returned(Called(c, "similaritySearch", << >>, k), c, Omitted)
       ELSE /\ calls' = Called(c, "similaritySearch", << >>, k)
            /\ UNCHANGED <<op, outcome, io, pre>>

\* similaritySearch from its await on (rag.ts:62-77): the collection is mapped
\* as it is now
SearchSettled(c, queryEmbedding) ==
    /\ Awaiting(c, "similaritySearch")
    /\ op' = Call("similaritySearch", "", Undefined, << >>, Omitted,
                  calls.inflight[c].k)
    /\ pre' = Before
    /\ UNCHANGED <<documents, disk>>
    /\ IF queryEmbedding = Rejected
       THEN /\ SearchEmbedFailed
            /\ calls' = Returned(calls, c, Omitted)
       ELSE /\ SearchRanked(calls.inflight[c].k, queryEmbedding[1])
            /\ calls' = Returned(calls, c, Given(documents))

\* addDocument up to its await (rag.ts:30-31)
AddDocumentCalled(c, text) ==
    /\ NextCall(c)
    /\ calls' = Called(c, "addDocument", <<text>>, Omitted)
    /\ UNCHANGED <<documents, disk, op, outcome, io, pre>>

\* A variant that appends to the collection as it was when the call was made
AddDocumentSettled_OntoSeen(c, embedding, write) ==
    /\ Awaiting(c, "addDocument")
    /\ embedding # Rejected
    /\ op' = Call("addDocument", calls.inflight[c].texts[1], Undefined, << >>,
                  Omitted, Omitted)
    /\ pre' = Before
    /\ LET seen == calls.inflight[c].seen
       IN  documents' = Append(seen, Doc(NewId(seen), calls.inflight[c].texts[1],
                                         embedding[1], Undefined))
    /\ disk' = saveToDisk(documents', disk, write)
    /\ outcome' = Outcome(FALSE, << >>, "ok", << >>)
    /\ io' = Io(1, 1, WriteFailures(write))
    /\ calls' = [Written(Returned(calls, c, Omitted), documents')
                    EXCEPT !.sinceClear = @ \o calls.inflight[c].texts]

\* addDocument from its await on (rag.ts:31-39): push and saveToDisk, with no
\* await between them
AddDocumentSettled(c, embedding, write) ==
    /\ Awaiting(c, "addDocument")
    /\ op' = Call("addDocument", calls.inflight[c].texts[1], Undefined, << >>,
                  Omitted, Omitted)
    /\ pre' = Before
    /\ IF embedding = Rejected
       THEN /\ outcome' = Outcome(TRUE, << >>, "failed", << >>)
            /\ io' = Io(1, 0, 0)
            /\ UNCHANGED <<documents, disk>>
            /\ calls' = Returned(calls, c, Omitted)
       ELSE /\ documents' = Append(documents,
                    Doc(NewId(documents), calls.inflight[c].texts[1],
                        embedding[1], Undefined))
            /\ disk' = saveToDisk(documents', disk, write)
            /\ outcome' = Outcome(FALSE, << >>, "ok", << >>)
            /\ io' = Io(1, 1, WriteFailures(write))
            /\ calls' = [Written(Returned(calls, c, Omitted), documents')
                            EXCEPT !.sinceClear = @ \o calls.inflight[c].texts]

\* addDocuments up to its await (rag.ts:42-43)
AddDocumentsCalled(c, texts) ==
    /\ NextCall(c)
    /\ calls' = Called(c, "addDocuments", texts, Omitted)
    /\ UNCHANGED <<documents, disk, op, outcome, io, pre>>

\* A variant that gives way to other calls after each document it pushes
AddDocumentsSettled_OneByOne(c, embeddings, write) ==
    /\ Awaiting(c, "addDocuments")
    /\ embeddings # Rejected
    /\ LET texts == calls.inflight[c].texts
       IN  /\ documents' = Append(documents,
                   Doc(NewId(documents), texts[1], embeddings[1][1], Undefined))
           /\ IF Len(texts) > 1
              THEN /\ calls' = [calls EXCEPT !.inflight[c].texts = Tail(texts)]
                   /\ UNCHANGED <<disk, op, outcome, io, pre>>
              ELSE /\ op' = Call("addDocuments", "", Undefined, texts, Omitted, Omitted)
                   /\ pre' = Before
                   /\ disk' = saveToDisk(documents', disk, write)
                   /\ outcome' = Outcome(FALSE, << >>, "ok", << >>)
                   /\ io' = Io(1, 1, WriteFailures(write))
                   /\ calls' = Written(Returned(calls, c, Omitted), documents')

\* addDocuments from its await on (rag.ts:43-53): forEach pushes every
\* document and saveToDisk follows, with no await between them
AddDocumentsSettled(c, embeddings, write) ==
    /\ Awaiting(c, "addDocuments")
    /\ op' = Call("addDocuments", "", Undefined, calls.inflight[c].texts,
                  Omitted, Omitted)
    /\ pre' = Before
    /\ IF embeddings = Rejected
       THEN /\ outcome' = Outcome(TRUE, << >>, "failed", << >>)
            /\ io' = Io(1, 0, 0)
            /\ UNCHANGED <<documents, disk>>
            /\ calls' = Returned(calls, c, Omitted)
       ELSE /\ documents' = PushAll(documents, calls.inflight[c].texts,
                                    embeddings[1], Omitted, 1)
            /\ disk' = saveToDisk(documents', disk, write)
            /\ outcome' = Outcome(FALSE, << >>, "ok", << >>)
            /\ io' = Io(1, 1, WriteFailures(write))
            /\ calls' = [Written(Returned(calls, c, Omitted), documents')
                            EXCEPT !.sinceClear = @ \o calls.inflight[c].texts]

\* clear (rag.ts:105-108): it has no await
ClearCalled(c, write) ==
    /\ NextCall(c)
    /\ documents' = << >>
    /\ disk' = saveToDisk(documents', disk, write)
    /\ op' = Call("clear", "", Undefined, << >>, Omitted, Omitted)
    /\ pre' = Before
    /\ outcome' = Outcome(FALSE, << >>, "none", << >>)
    /\ io' = Io(0, 1, WriteFailures(write))
    /\ calls' = [Written(Returned(Called(c, "clear", << >>, Omitted), c, Omitted),
                         documents')
                    EXCEPT !.sinceClear = << >>]

\* What embedDocuments resolves to for the texts call c passed
CallEmbeddings(c) == [i \in 1..Len(calls.inflight[c].texts) |-> PersistEmbedding]

NextConc ==
    \/ \E c \in 1..MaxCalls, k \in {Omitted, Given(1)} :
          SearchCalled(c, k) /\ UNCHANGED app
    \/ \E c \in 1..MaxCalls, q \in {Rejected, Resolved(PersistEmbedding)} :
          SearchSettled(c, q) /\ UNCHANGED app
    \/ \E c \in 1..MaxCalls : AddDocumentCalled(c, "a") /\ UNCHANGED app
    \/ \E c \in 1..MaxCalls, e \in {Rejected, Resolved(PersistEmbedding)},
          w \in WriteOutcomes : AddDocumentSettled(c, e, w) /\ UNCHANGED app
    \/ \E c \in 1..MaxCalls : AddDocumentsCalled(c, <<"b", "c">>) /\ UNCHANGED app
    \/ \E c \in 1..MaxCalls, w \in WriteOutcomes :
          \E es \in {Rejected, Resolved(CallEmbeddings(c))} :
              AddDocumentsSettled(c, es, w) /\ UNCHANGED app
    \/ \E c \in 1..MaxCalls, w \in WriteOutcomes : ClearCalled(c, w) /\ UNCHANGED app

SpecConc == Init /\ [][NextConc]_vars

-----------------------------------------------------------------------------
\* Vocabulary of the properties

Searched == op.name = "similaritySearch"

\* The search embedded the query and ranked the stored documents
Ranked == Searched /\ outcome.embed = "ok"

Added == op.name \in {"addDocument", "addDocuments"}

\* The requested k, 4 when the argument is omitted
RequestedK == DefaultK(op.k)

\* The similarity of a stored document to the query of the last search
ScoreOf(d) == cosineSimilarity(outcome.qvec, d.embedding)

\* Comparisons of scores as numbers: every comparison with NaN is false
ScoreGE(a, b) == ~a.nan /\ ~b.nan /\ a.num * b.den >= b.num * a.den

ScoreGT(a, b) == ~a.nan /\ ~b.nan /\ a.num * b.den > b.num * a.den

ScoreEQ(a, b) == ~a.nan /\ ~b.nan /\ a.num * b.den = b.num * a.den

ZeroMagnitude(vec) == SumTo([i \in 1..Len(vec) |-> vec[i] * vec[i]], Len(vec)) = 0

\* Where a returned document stands in the store's insertion order
PositionOf(d) == CHOOSE p \in 1..Len(documents) : documents[p] = d

StoreUntouched == documents = pre.documents /\ disk = pre.disk

-----------------------------------------------------------------------------
\* Properties

\* C1: similaritySearch(query, k) returns at most k documents (none for a
\* negative k), and every returned document is in the store's collection.
C1_AtMostKFromStore ==
    Searched =>
        /\ Len(outcome.ret) <= Max(RequestedK, 0)
        /\ \A i \in 1..Len(outcome.ret) : outcome.ret[i] \in Range(documents)

\* C2: when the embedding provider fails during addDocument or addDocuments,
\* the call fails to its caller, the collection (and so its count) is what it
\* was before the call, and the persisted snapshot is not written.
C2_EmbedFailureLeavesStore ==
    (Added /\ outcome.embed = "failed") =>
        /\ outcome.threw
        /\ Len(documents) = Len(pre.documents)
        /\ StoreUntouched
        /\ io.writes = 0

C2_Witness ==
    /\ op.name = "addDocument"
    /\ outcome.embed = "failed"
    /\ Len(pre.documents) > 0
    /\ pre.disk.exists

\* C3: when the embedding provider fails during similaritySearch on a
\* non-empty store, the search returns an empty sequence instead of failing,
\* and leaves the collection and the persisted snapshot as they were.
C3_SearchDegradesToEmpty ==
    (Searched /\ Len(pre.documents) > 0 /\ outcome.embed = "failed") =>
        /\ ~outcome.threw
        /\ outcome.ret = << >>
        /\ StoreUntouched
        /\ io.writes = 0

C3_Witness ==
    /\ Searched
    /\ outcome.embed = "failed"
    /\ Len(documents) > 0
    /\ disk.exists

\* C4: on a store holding zero documents, similaritySearch returns an empty
\* sequence and makes no call to the embedding provider, whatever k is.
C4_EmptyStoreNoProviderCall ==
    (Searched /\ Len(pre.documents) = 0) =>
        /\ ~outcome.threw
        /\ outcome.ret = << >>
        /\ io.embedCalls = 0

\* an empty store that was written (cleared) before, queried with a positive k
C4_Witness ==
    /\ Searched
    /\ Len(pre.documents) = 0
    /\ pre.disk.exists
    /\ RequestedK > 0

\* C5: when the provider succeeds, the returned documents are in descending
\* score order and no document left out scores strictly higher than a
\* returned one.
C5_TopKDescending ==
    Ranked =>
        /\ \A i \in 1..(Len(outcome.ret) - 1) :
              ScoreGE(ScoreOf(outcome.ret[i]), ScoreOf(outcome.ret[i + 1]))
        /\ \A d \in Range(documents) \ Range(outcome.ret) :
              \A r \in Range(outcome.ret) : ~ScoreGT(ScoreOf(d), ScoreOf(r))

\* C6: the result length follows k: k <= 0 gives an empty sequence, k greater
\* than the document count n gives all n documents, an omitted k acts as 4.
C6_KBoundaries ==
    (Searched /\ outcome.embed # "failed") =>
        /\ RequestedK <= 0 => Len(outcome.ret) = 0
        /\ RequestedK > Len(documents) => Len(outcome.ret) = Len(documents)
        /\ op.k = Omitted => Len(outcome.ret) = Min(4, Len(documents))

\* C7: two returned documents with the same score to the query stand in the
\* result in their insertion order.
C7_TiesInInsertionOrder ==
    Ranked =>
        \A i \in 1..Len(outcome.ret) : \A j \in (i + 1)..Len(outcome.ret) :
            ScoreEQ(ScoreOf(outcome.ret[i]), ScoreOf(outcome.ret[j]))
                => PositionOf(outcome.ret[i]) < PositionOf(outcome.ret[j])

\* C8: a stored document with a zero-magnitude embedding is never returned,
\* and the other returned documents stay in descending score order.
C8_ZeroMagnitudeExcluded ==
    Ranked =>
        /\ \A i \in 1..Len(outcome.ret) : ~ZeroMagnitude(outcome.ret[i].embedding)
        /\ \A i \in 1..Len(outcome.ret) : \A j \in (i + 1)..Len(outcome.ret) :
              (~ZeroMagnitude(outcome.ret[i].embedding)
               /\ ~ZeroMagnitude(outcome.ret[j].embedding))
                  => ~ScoreGT(ScoreOf(outcome.ret[j]), ScoreOf(outcome.ret[i]))

\* C9: addDocuments with a metadatas list whose length differs from the texts
\* list fails, leaves the collection unchanged, calls no embedding provider
\* and writes nothing.
C9_MetadataMismatchRejected ==
    (op.name = "addDocuments" /\ op.metadatas # Omitted
        /\ Len(op.metadatas[1]) # Len(op.texts)) =>
        /\ outcome.threw
        /\ StoreUntouched
        /\ io.embedCalls = 0
        /\ io.writes = 0

\* C10: addDocument with an empty text, and addDocuments with an empty texts
\* collection, fail before any I/O: no provider call, no document appended,
\* no write.
C10_EmptyInputRejected ==
    (\/ op.name = "addDocument" /\ op.text = ""
     \/ op.name = "addDocuments" /\ op.texts = << >>) =>
        /\ outcome.threw
        /\ io.embedCalls = 0
        /\ StoreUntouched
        /\ io.writes = 0


-----------------------------------------------------------------------------
\* Properties of persistence

Mutated == op.name \in {"addDocument", "addDocuments", "clear"}

\* The file holds exactly the in-memory collection
Durable == disk.exists /\ disk.readable /\ Parse(disk.data) = documents

\* The file the call found existed and did not parse
FoundMalformed == pre.disk.exists /\ ~pre.disk.readable

\* C11: addDocuments writes the snapshot exactly once after the whole batch,
\* and the batch is all-or-nothing: all its documents are visible, or, when
\* the write fails, none of them is.
C11_BatchAtomicWithWrite ==
    (op.name = "addDocuments" /\ outcome.embed = "ok") =>
        /\ io.writes = 1
        /\ \/ Len(documents) = Len(pre.documents) + Len(op.texts)
           \/ documents = pre.documents
        /\ io.writeFailures > 0 => documents = pre.documents

\* C12: a failing persistence write is surfaced to the caller of addDocument,
\* addDocuments or clear: no such call completes normally while the persisted
\* snapshot differs from the in-memory collection.
C12_WriteFailureSurfaced ==
    Mutated =>
        /\ io.writeFailures > 0 => outcome.threw
        /\ ~outcome.threw => Durable

\* C13: constructing a store over an existing but malformed file reports a
\* failure to the caller, and no later add or clear replaces that file.
C13_MalformedLoadReported ==
    /\ (op.name = "construct" /\ FoundMalformed) => outcome.threw
    /\ (Mutated /\ FoundMalformed) => disk = pre.disk

\* C14: a store constructed after a restart holds the collection that was in
\* memory before it (same documents, same order, same ids, texts, embeddings
\* and metadata).
C14_RestartReproducesCollection ==
    op.name = "construct" => documents = pre.documents

\* C15: after clear the in-memory collection is empty and the persisted
\* snapshot is the empty collection, however many times clear is called, so a
\* restart finds zero documents.
C15_ClearDurable ==
    op.name = "clear" =>
        /\ documents = << >>
        /\ disk.exists /\ disk.readable /\ disk.data = << >>
        /\ loadFromDisk(disk) = << >>


-----------------------------------------------------------------------------
\* Properties of the bootstrap

\* How many documents hold the first seed text
SeedCopies ==
    Cardinality({i \in DOMAIN documents : documents[i].text = sampleDocs[1]})

\* C16: across every interleaving of chat requests in one process,
\* addDocuments is called with the seed corpus at most once and never on a
\* non-empty store, and the store never holds more than one copy of the corpus.
C16_SeededAtMostOnce ==
    /\ app.seedCalls <= 1
    /\ ~app.seedOnNonEmpty
    /\ SeedCopies <= 1

\* C17: once the first ensureRAGInitialized outcome is recorded the flag keeps
\* that value, initializeRAG is not invoked again, and after a failure no
\* request that arrives later calls similaritySearch.
C17_FlagDecidedOnce ==
    /\ app.decided = "available" => app.ragEnabled
    /\ app.decided = "unavailable" => ~app.ragEnabled
    /\ ~app.lateInit
    /\ ~app.lateSearch


-----------------------------------------------------------------------------
\* Properties of the stored documents

\* C18: no two documents of the collection have the same id, whatever adds
\* were made (several within one clock millisecond included) and after a
\* reload of the persisted snapshot.
C18_IdsUnique ==
    \A i \in DOMAIN documents, j \in DOMAIN documents :
        documents[i].id = documents[j].id => i = j


\* C19: all the stored embeddings have the same length; an add whose embedding
\* differs in length from the stored ones throws and appends nothing.
C19_OneDimensionality ==
    /\ \A i \in DOMAIN documents, j \in DOMAIN documents :
           Len(documents[i].embedding) = Len(documents[j].embedding)
    /\ (Added /\ pre.documents # << >>) =>
           \A i \in DOMAIN documents :
               Len(documents[i].embedding) = Len(pre.documents[1].embedding)


\* The metadata the i-th text of the call is paired with: the i-th of
\* metadatas, undefined where there is none
PairedMetadata(i) ==
    IF op.metadatas = Omitted THEN Undefined
    ELSE IF i <= Len(op.metadatas[1]) THEN op.metadatas[1][i] ELSE Undefined

\* The documents stored when the call started are the head of the collection,
\* unchanged and in their order
StoredKept ==
    /\ Len(documents) >= Len(pre.documents)
    /\ SubSeq(documents, 1, Len(pre.documents)) = pre.documents

\* C20: a successful addDocument appends exactly one document at the tail, a
\* successful addDocuments one document per text at the tail, in input order,
\* each with the metadata at its position; no add and no search changes or
\* reorders a document already stored.
C20_AppendOnly ==
    /\ (op.name = "addDocument" /\ ~outcome.threw) =>
           /\ StoredKept
           /\ Len(documents) = Len(pre.documents) + 1
           /\ documents[Len(documents)].text = op.text
           /\ documents[Len(documents)].metadata = op.metadata
    /\ (op.name = "addDocuments" /\ ~outcome.threw) =>
           /\ StoredKept
           /\ Len(documents) = Len(pre.documents) + Len(op.texts)
           /\ \A i \in 1..Len(op.texts) :
                  /\ documents[Len(pre.documents) + i].text = op.texts[i]
                  /\ documents[Len(pre.documents) + i].metadata = PairedMetadata(i)
    /\ ((Added /\ outcome.threw) \/ Searched) => documents = pre.documents

\* addDocuments with metadatas returned after appending to a non-empty store
C20_Witness ==
    /\ op.name = "addDocuments"
    /\ ~outcome.threw
    /\ pre.documents # << >>
    /\ op.metadatas # Omitted
    /\ Len(documents) > Len(pre.documents)


-----------------------------------------------------------------------------
\* Properties of overlapping calls

SearchesRanked ==
    {c \in 1..MaxCalls : /\ calls.inflight[c].name = "similaritySearch"
                         /\ calls.inflight[c].ranked # Omitted}

\* C21: a similaritySearch that overlaps addDocuments or clear ranks a
\* collection that is whole: the collection as some write that returned left
\* it (or as it was before any write), never a batch partly appended.
C21_NoTornRead ==
    \A c \in SearchesRanked : calls.inflight[c].ranked[1] \in calls.complete

\* A search made while an addDocuments call awaited has ranked, and that
\* addDocuments call has returned with its batch appended
C21_Witness ==
    \E c \in SearchesRanked, d \in 1..MaxCalls :
        LET seen == calls.inflight[c].seen
            ranked == calls.inflight[c].ranked[1]
        IN  /\ d < c
            /\ calls.inflight[d].name = "addDocuments"
            /\ calls.inflight[d].state = "returned"
            /\ calls.inflight[d].seen = seen
            /\ seen # << >>
            /\ Len(ranked) = Len(seen) + Len(calls.inflight[d].texts)
            /\ SubSeq(ranked, 1, Len(seen)) = seen


\* The texts of the documents a restart would load
PersistedTexts == [i \in DOMAIN loadFromDisk(disk) |-> loadFromDisk(disk)[i].text]

NoCallAwaiting == \A c \in 1..MaxCalls : calls.inflight[c].state # "awaiting"

\* C22: with every write succeeding, whenever an add or clear returns the
\* persisted snapshot equals the in-memory collection, and once no call is
\* pending the snapshot holds every document added after the last clear (one
\* per text, in the order the adds returned).
C22_NoLostUpdate ==
    /\ (Mutated /\ ~outcome.threw) => Durable
    /\ NoCallAwaiting => PersistedTexts = calls.sinceClear

\* Two adds were made on the same collection, both have returned, and no call
\* is pending
C22_Witness ==
    /\ NoCallAwaiting
    /\ \E c \in 1..MaxCalls, d \in 1..MaxCalls :
          /\ c < d
          /\ calls.inflight[c].name = "addDocument"
          /\ calls.inflight[d].name \in {"addDocument", "addDocuments"}
          /\ calls.inflight[c].seen = calls.inflight[d].seen
          /\ Len(calls.sinceClear)
                 >= Len(calls.inflight[c].texts) + Len(calls.inflight[d].texts)

====
